---- MODULE Spec2Model ----
(***************************************************************************)
(* Model of llama_index/evaluation/base.py and relevancy.py:               *)
(* EvaluationResult, BaseEvaluator.evaluate_response and                   *)
(* RelevancyEvaluator.__init__ / evaluate.                                 *)
(*                                                                         *)
(* A Python str is a sequence of one-character strings.  An Optional[T]    *)
(* value is None or Some(v).  One RelevancyEvaluator object (self) lives   *)
(* for the whole behaviour; callers invoke evaluate or evaluate_response   *)
(* on it one call after the other.                                         *)
(***************************************************************************)
EXTENDS Integers, Sequences, FiniteSets, TLC

\* ------------------------------------------------------------------ bounds
\* largest number of context strings / source nodes handed to one call
MaxContexts == 2
\* number of calls a caller makes on the evaluator, one after the other
MaxCalls == 2

\* ------------------------------------------------------- Optional[T] values
None == [isNone |-> TRUE]
Some(v) == [isNone |-> FALSE, val |-> v]

\* ------------------------------------------------------------ Python strings
\* str.lower() on one character (the letters that occur in the model's texts)
LowerChar(c) ==
  CASE c = "Y" -> "y"
    [] c = "E" -> "e"
    [] c = "S" -> "s"
    [] c = "N" -> "n"
    [] c = "O" -> "o"
    [] c = "A" -> "a"
    [] OTHER -> c

\* str.lower()
Lower(s) == [i \in 1..Len(s) |-> LowerChar(s[i])]

\* sub in s  (Python substring test)
Contains(sub, s) ==
  \E i \in 1..(Len(s) - Len(sub) + 1) : SubSeq(s, i, i + Len(sub) - 1) = sub

\* the literal "yes" of relevancy.py line 105
YES == <<"y", "e", "s">>

\* the literal pieces of the f-string of relevancy.py line 95
QuestionPrefix == <<"Q","u","e","s","t","i","o","n",":"," ">>
ResponseInfix == <<"\n","R","e","s","p","o","n","s","e",":"," ">>

\* f"Question: {query}\nResponse: {response}"
FormatQueryResponse(q, r) == QuestionPrefix \o q \o ResponseInfix \o r

\* ------------------------------------------------------------- input domains
QueryTexts == { <<>>, <<"q">> }
ResponseTexts == { <<"r">> }
ContextTexts == { <<"a">>, <<"b">> }

\* sequences over S of length at most n
RECURSIVE SeqsUpTo(_, _)
SeqsUpTo(S, n) ==
  IF n = 0 THEN { <<>> }
  ELSE LET shorter == SeqsUpTo(S, n - 1)
       IN shorter \cup { Append(s, x) : s \in { t \in shorter : Len(t) = n - 1 }, x \in S }

OptQueries == {None} \cup { Some(q) : q \in QueryTexts }
OptResponses == {None} \cup { Some(r) : r \in ResponseTexts }
OptContexts == {None} \cup { Some(c) : c \in SeqsUpTo(ContextTexts, MaxContexts) }

\* a source node of a Response object: NodeWithScore, get_content() gives its text
SourceNodes == { [text |-> t, score |-> 1] : t \in ContextTexts }
GetContent(node) == node.text

\* Response objects handed to evaluate_response (response text is Optional[str])
ResponseObjects ==
  { [response |-> r, source_nodes |-> ns] :
      r \in OptResponses, ns \in SeqsUpTo(SourceNodes, MaxContexts) }
OptResponseObjects == {None} \cup { Some(ro) : ro \in ResponseObjects }

\* texts the language model (or the empty index) may answer with
AnswerTexts ==
  { <<"y","e","s","n","o">>,
    <<"y"," ","e","s">>,
    <<"A","n","s","w","e","r",":"," ","Y","E","S",","," ","b","e","c","a","u","s","e",".",".",".">>,
    <<"N","o",","," ","d","e","f","i","n","i","t","e","l","y"," ","n","o","t">>,
    <<>> }

\* ------------------------------------------------------------ prompt templates
DEFAULT_EVAL_TEMPLATE == [template |-> "DEFAULT_EVAL_TEMPLATE"]
DEFAULT_REFINE_TEMPLATE == [template |-> "DEFAULT_REFINE_TEMPLATE"]

\* PromptTemplate(text)
PromptTemplate(text) == [template |-> text]

\* constructor arguments for a template: None, a str, or a template object
NoArg == [kind |-> "none"]
StrArg(text) == [kind |-> "str", text |-> text]
ObjArg(obj) == [kind |-> "object", obj |-> obj]

\* the constructor calls of the model: <<service_context, eval_template, refine_template>>
ConstructorArgs ==
  { << NoArg, NoArg, NoArg >>,
    << ObjArg("service context"), StrArg("custom eval"), ObjArg(PromptTemplate("custom refine")) >>,
    << NoArg, ObjArg(PromptTemplate("custom eval")), StrArg("custom refine") >> }

\* the constructor's raise_error argument: left out, True or False
RaiseErrorArgs == { NoArg, ObjArg(TRUE), ObjArg(FALSE) }

\* ServiceContext.from_defaults()
ServiceContextFromDefaults == "default service context"

\* isinstance(t, str) -> PromptTemplate(t); otherwise t or default
ResolveTemplate(arg, default) ==
  IF arg.kind = "str" THEN PromptTemplate(arg.text)
  ELSE IF arg.kind = "object" THEN arg.obj
  ELSE default

\* RelevancyEvaluator.__init__
RelevancyEvaluatorInit(service_context, raise_error, eval_template, refine_template) ==
  [ _service_context |->
      IF service_context.kind = "object" THEN service_context.obj
      ELSE ServiceContextFromDefaults,
    _raise_error |-> IF raise_error.kind = "object" THEN raise_error.obj ELSE FALSE,
    _eval_template |-> ResolveTemplate(eval_template, DEFAULT_EVAL_TEMPLATE),
    _refine_template |-> ResolveTemplate(refine_template, DEFAULT_REFINE_TEMPLATE) ]

\* ------------------------------------------------------------ results, errors
\* variant: the feedback is not passed
EvaluationResult_NoFeedback(q, r, p, f) ==
  [ query |-> Some(q), contexts |-> None, response |-> Some(r),
    passing |-> Some(p), feedback |-> None, score |-> None ]

\* variant: query and response are passed the wrong way round
EvaluationResult_Swapped(q, r, p, f) ==
  [ query |-> Some(r), contexts |-> None, response |-> Some(q),
    passing |-> Some(p), feedback |-> Some(f), score |-> None ]

\* EvaluationResult(...): fields not passed keep their default None
EvaluationResult(q, r, p, f) ==
  [ query |-> Some(q), contexts |-> None, response |-> Some(r),
    passing |-> Some(p), feedback |-> Some(f), score |-> None ]

Returned(value) == [kind |-> "return", value |-> value]
Raised(exc, msg) == [kind |-> "raise", exc |-> exc, msg |-> msg]

\* raise ValueError("query, contexts, and response must be provided")
InvalidInput == Raised("ValueError", "query, contexts, and response must be provided")
\* raise ValueError("The response is invalid")
EvaluationRejected == Raised("ValueError", "The response is invalid")
\* errors raised inside the collaborators (index construction, model invocation)
IndexErrors == { Raised("RuntimeError", "from_documents failed") }
QueryErrors == { Raised("TimeoutError", "model timed out"),
                 Raised("ConnectionError", "model unreachable") }

NoOutcome == [kind |-> "none"]

\* variant: the documents are made in reverse order
Documents_Reversed(ctxs) == [i \in 1..Len(ctxs) |-> [text |-> ctxs[Len(ctxs) + 1 - i]]]

\* [Document(text=context) for context in contexts]
Documents(ctxs) == [i \in 1..Len(ctxs) |-> [text |-> ctxs[i]]]

\* variant: the answer is not lower-cased before the test
VerdictOutcome_CaseSensitive(q, r, raw_response_txt, raise_error) ==
  IF Contains(YES, raw_response_txt)
  THEN Returned(EvaluationResult(q, r, TRUE, raw_response_txt))
  ELSE IF raise_error
       THEN EvaluationRejected
       ELSE Returned(EvaluationResult(q, r, FALSE, raw_response_txt))

\* variant: raise_error is ignored
VerdictOutcome_NeverRaises(q, r, raw_response_txt, raise_error) ==
  IF Contains(YES, Lower(raw_response_txt))
  THEN Returned(EvaluationResult(q, r, TRUE, raw_response_txt))
  ELSE Returned(EvaluationResult(q, r, FALSE, raw_response_txt))

\* relevancy.py lines 103-117: verdict and result from the raw answer text
VerdictOutcome(q, r, raw_response_txt, raise_error) ==
  IF Contains(YES, Lower(raw_response_txt))
  THEN Returned(EvaluationResult(q, r, TRUE, raw_response_txt))
  ELSE IF raise_error
       THEN EvaluationRejected
       ELSE Returned(EvaluationResult(q, r, FALSE, raw_response_txt))

\* ---------------------------------------------------------------------- state
VARIABLES
  self,            \* the RelevancyEvaluator's attributes
  pc,              \* position of the current call
  via,             \* which public method the caller invoked
  er_query,        \* evaluate_response's argument query
  er_response,     \* evaluate_response's argument response (a Response object)
  n_evaluate,      \* calls of evaluate made by the current top-level call
  query,           \* evaluate's argument query
  response,        \* evaluate's argument response
  contexts,        \* evaluate's argument contexts
  docs,            \* evaluate's local docs
  index,           \* evaluate's local index
  query_response,  \* evaluate's local query_response
  query_engine,    \* evaluate's local query_engine
  n_index,         \* SummaryIndex.from_documents calls of the current call
  n_query,         \* query_engine.query calls of the current call
  llm_calls,       \* prompts the query engine sent to the model in this call
  answer,          \* the query engine's running answer
  raised,          \* the exception a collaborator raised inside the current call
  outcome,         \* what the current call returned or raised
  n_calls          \* calls made on the evaluator so far

vars == << self, pc, via, er_query, er_response, n_evaluate, query, response,
           contexts, docs, index, query_response, query_engine, n_index,
           n_query, llm_calls, answer, raised, outcome, n_calls >>

caller == << via, er_query, er_response, n_evaluate, n_calls >>
arguments == << query, response, contexts >>
locals == << docs, index, query_response, query_engine >>

Init ==
  /\ self \in { RelevancyEvaluatorInit(a[1], re, a[2], a[3]) :
                  a \in ConstructorArgs, re \in RaiseErrorArgs }
  /\ pc = "idle"
  /\ via = "none"
  /\ er_query = None
  /\ er_response = None
  /\ n_evaluate = 0
  /\ query = None
  /\ response = None
  /\ contexts = None
  /\ docs = None
  /\ index = None
  /\ query_response = None
  /\ query_engine = None
  /\ n_index = 0
  /\ n_query = 0
  /\ llm_calls = << >>
  /\ answer = None
  /\ raised = None
  /\ outcome = NoOutcome
  /\ n_calls = 0

\* -------------------------------------------------------------------- evaluate
\* variant: the response argument is not checked
ArgumentsMissing_ResponseUnchecked(q, r, c) == q.isNone \/ c.isNone

\* variant: a truthiness check, so that an empty contexts list counts as missing
ArgumentsMissing_EmptyIsAbsent(q, r, c) ==
  q.isNone \/ c.isNone \/ r.isNone \/ c.val = << >>

\* relevancy.py line 89: query is None or contexts is None or response is None
ArgumentsMissing(q, r, c) == q.isNone \/ c.isNone \/ r.isNone

\* relevancy.py lines 87-92: a fresh frame, the argument check, the documents
EvaluateEntry(q, r, c) ==
  /\ query' = q
  /\ response' = r
  /\ contexts' = c
  /\ n_evaluate' = 1
  /\ index' = None
  /\ query_response' = None
  /\ query_engine' = None
  /\ n_index' = 0
  /\ n_query' = 0
  /\ llm_calls' = << >>
  /\ answer' = None
  /\ raised' = None
  /\ IF ArgumentsMissing(q, r, c)
     THEN /\ docs' = None
          /\ outcome' = InvalidInput
          /\ pc' = "done"
     ELSE /\ docs' = Some(Documents(c.val))
          /\ outcome' = NoOutcome
          /\ pc' = "from_documents"
  /\ UNCHANGED self

\* a caller invokes evaluate(query, response, contexts)
Evaluate ==
  /\ pc \in {"idle", "done"}
  /\ n_calls < MaxCalls
  /\ n_calls' = n_calls + 1
  /\ \E q \in OptQueries, r \in OptResponses, c \in OptContexts :
       /\ via' = "evaluate"
       /\ er_query' = None
       /\ er_response' = None
       /\ EvaluateEntry(q, r, c)

\* base.py lines 57-60: the text of a Response object
ResponseStr(ro) == IF ro.isNone THEN None ELSE ro.val.response

\* variant: the source contents are collected in reverse order
ResponseContexts_Reversed(ro) ==
  IF ro.isNone THEN None
  ELSE LET n == Len(ro.val.source_nodes)
       IN Some([i \in 1..n |-> GetContent(ro.val.source_nodes[n + 1 - i])])

\* base.py lines 58-61: the contents of the source nodes of a Response object
ResponseContexts(ro) ==
  IF ro.isNone THEN None
  ELSE Some([i \in 1..Len(ro.val.source_nodes) |-> GetContent(ro.val.source_nodes[i])])

\* a caller invokes evaluate_response(query, response)
EvaluateResponse ==
  /\ pc \in {"idle", "done"}
  /\ n_calls < MaxCalls
  /\ n_calls' = n_calls + 1
  /\ \E q \in OptQueries, ro \in OptResponseObjects :
       /\ via' = "evaluate_response"
       /\ er_query' = q
       /\ er_response' = ro
       /\ EvaluateEntry(q, ResponseStr(ro), ResponseContexts(ro))

\* variant: the index is kept on the evaluator
FromDocuments_CachesIndex ==
  /\ pc = "from_documents"
  /\ n_index' = n_index + 1
  /\ index' = Some([service_context |-> self._service_context,
                    nodes |-> [i \in 1..Len(docs.val) |-> docs.val[i].text]])
  /\ self' = [ _service_context |-> self._service_context,
               _raise_error |-> self._raise_error,
               _eval_template |-> self._eval_template,
               _refine_template |-> self._refine_template,
               _index |-> index' ]
  /\ query_response' = Some(FormatQueryResponse(query.val, response.val))
  /\ query_engine' = Some([text_qa_template |-> self._eval_template,
                           refine_template |-> self._refine_template])
  /\ pc' = "query"
  /\ UNCHANGED << caller, arguments, docs, n_query, llm_calls, answer, raised, outcome >>

\* relevancy.py lines 93-100: the index is built, the query string and the
\* query engine are set up
FromDocuments ==
  /\ pc = "from_documents"
  /\ n_index' = n_index + 1
  /\ index' = Some([service_context |-> self._service_context,
                    nodes |-> [i \in 1..Len(docs.val) |-> docs.val[i].text]])
  /\ query_response' = Some(FormatQueryResponse(query.val, response.val))
  /\ query_engine' = Some([text_qa_template |-> self._eval_template,
                           refine_template |-> self._refine_template])
  /\ pc' = "query"
  /\ UNCHANGED << self, caller, arguments, docs, n_query, llm_calls, answer, raised, outcome >>

\* relevancy.py line 93: SummaryIndex.from_documents raises; nothing catches it
FromDocumentsFails ==
  /\ pc = "from_documents"
  /\ n_index' = n_index + 1
  /\ \E e \in IndexErrors : raised' = Some(e)
  /\ outcome' = raised'.val
  /\ pc' = "done"
  /\ UNCHANGED << self, caller, arguments, locals, n_query, llm_calls, answer >>

\* one prompt sent to the model
Prompt(template, query_str, context, existing_answer) ==
  [ template |-> template, query_str |-> query_str,
    context |-> context, existing_answer |-> existing_answer ]

\* relevancy.py line 101 over an index without documents: the answer is the
\* collaborator's choice and no prompt is sent
QueryEmpty ==
  /\ pc = "query"
  /\ Len(index.val.nodes) = 0
  /\ n_query' = n_query + 1
  /\ \E a \in AnswerTexts : answer' = Some(a)
  /\ pc' = "verdict"
  /\ UNCHANGED << self, caller, arguments, locals, n_index, llm_calls, raised, outcome >>

\* relevancy.py line 101: the query starts; the eval template is applied to
\* the first chunk
QueryFirst ==
  /\ pc = "query"
  /\ Len(index.val.nodes) > 0
  /\ n_query' = n_query + 1
  /\ llm_calls' = << Prompt(query_engine.val.text_qa_template, query_response.val,
                            index.val.nodes[1], None) >>
  /\ \E a \in AnswerTexts : answer' = Some(a)
  /\ pc' = IF Len(index.val.nodes) > 1 THEN "refine" ELSE "verdict"
  /\ UNCHANGED << self, caller, arguments, locals, n_index, raised, outcome >>

\* the refine template is applied to the next chunk with the running answer
Refine ==
  /\ pc = "refine"
  /\ LET i == Len(llm_calls) + 1
     IN /\ llm_calls' = Append(llm_calls,
                               Prompt(query_engine.val.refine_template,
                                      query_response.val, index.val.nodes[i], answer))
        /\ pc' = IF Len(index.val.nodes) > i THEN "refine" ELSE "verdict"
  /\ \E a \in AnswerTexts : answer' = Some(a)
  /\ UNCHANGED << self, caller, arguments, locals, n_index, n_query, raised, outcome >>

\* variant: a failed query is caught and issued again
QueryFails_Retries ==
  /\ pc \in {"query", "refine"}
  /\ n_query' = IF pc = "query" THEN n_query + 1 ELSE n_query
  /\ llm_calls' = << >>
  /\ answer' = None
  /\ pc' = "query"
  /\ UNCHANGED << self, caller, arguments, locals, n_index, raised, outcome >>

\* relevancy.py line 101: the query raises (model or network error) at the
\* start or at a refine step; nothing catches it
QueryFails ==
  /\ pc \in {"query", "refine"}
  /\ n_query' = IF pc = "query" THEN n_query + 1 ELSE n_query
  /\ \E e \in QueryErrors : raised' = Some(e)
  /\ outcome' = raised'.val
  /\ pc' = "done"
  /\ UNCHANGED << self, caller, arguments, locals, n_index, llm_calls, answer >>

\* str(response_obj)
Str(response_obj) == response_obj.val

\* relevancy.py lines 103-117
Verdict ==
  /\ pc = "verdict"
  /\ outcome' = VerdictOutcome(query.val, response.val, Str(answer), self._raise_error)
  /\ pc' = "done"
  /\ UNCHANGED << self, caller, arguments, locals, n_index, n_query, llm_calls, answer, raised >>

Next ==
  \/ Evaluate
  \/ EvaluateResponse
  \/ FromDocuments
  \/ FromDocumentsFails
  \/ QueryEmpty
  \/ QueryFirst
  \/ Refine
  \/ QueryFails
  \/ Verdict

Spec == Init /\ [][Next]_vars

\* ===================================================================== claims
\* some argument of the current evaluate call is None
AnyAbsent == query.isNone \/ response.isNone \/ contexts.isNone

\* the current call ran its index query to the end and reached the verdict
VerdictReached == pc = "done" /\ ~AnyAbsent /\ raised.isNone

\* the text has the letters y, e, s next to each other, in either case
HasYes(s) ==
  \E i \in 1..(Len(s) - 2) :
    /\ s[i] \in {"y", "Y"}
    /\ s[i + 1] \in {"e", "E"}
    /\ s[i + 2] \in {"s", "S"}

PassingIs(b) == outcome.kind = "return" /\ outcome.value.passing = Some(b)

AnswerBecause ==
  <<"A","n","s","w","e","r",":"," ","Y","E","S",","," ","b","e","c","a","u","s","e",".",".",".">>
AnswerDefinitelyNot ==
  <<"N","o",","," ","d","e","f","i","n","i","t","e","l","y"," ","n","o","t">>
AnswerYesNo == <<"y","e","s","n","o">>

\* C1: whenever query, response or contexts of an evaluate call is None, the
\* call has ended with the invalid-input ValueError, and no documents, no
\* index, no query and no model prompt were made in it, whatever raise_error is.
C1_AbsentArgumentFails ==
  (pc # "idle" /\ AnyAbsent) =>
    /\ pc = "done"
    /\ outcome = InvalidInput
    /\ docs = None
    /\ index = None
    /\ query_engine = None
    /\ n_index = 0
    /\ n_query = 0
    /\ llm_calls = << >>

C1_Witness ==
  /\ pc = "done"
  /\ query.isNone /\ ~response.isNone /\ ~contexts.isNone
  /\ self._raise_error
  /\ outcome = InvalidInput

\* C2: once the verdict is reached, the call returned passing = true exactly
\* when the raw answer has "yes" in it in any letter case; the three texts of
\* the specification give true, false and true.
C2_VerdictIsYesSubstring ==
  VerdictReached =>
    /\ PassingIs(TRUE) <=> HasYes(answer.val)
    /\ answer.val = AnswerBecause => PassingIs(TRUE)
    /\ answer.val = AnswerYesNo => PassingIs(TRUE)
    /\ answer.val = AnswerDefinitelyNot => ~PassingIs(TRUE)

C2_Witness ==
  /\ VerdictReached
  /\ answer.val = AnswerBecause
  /\ PassingIs(TRUE)

\* C3: with a negative verdict the call raises the rejection error when
\* raise_error is set and returns passing = false when it is not (the
\* constructor's default); with a positive verdict it returns passing = true
\* under both settings.
C3_RaiseErrorOnNegative ==
  /\ RelevancyEvaluatorInit(NoArg, NoArg, NoArg, NoArg)._raise_error = FALSE
  /\ VerdictReached =>
       IF HasYes(answer.val)
       THEN PassingIs(TRUE)
       ELSE IF self._raise_error
            THEN outcome = EvaluationRejected
            ELSE PassingIs(FALSE)

C3_Witness ==
  /\ VerdictReached
  /\ self._raise_error
  /\ answer.val = AnswerDefinitelyNot
  /\ outcome = EvaluationRejected

\* C4 as stated: for non-absent arguments (and collaborators that do not
\* fail) evaluate returns a result with passing true or false and a feedback.
C4_AlwaysReturnsResult ==
  VerdictReached =>
    /\ outcome.kind = "return"
    /\ outcome.value.passing \in {Some(TRUE), Some(FALSE)}
    /\ ~outcome.value.feedback.isNone

\* C4: for non-absent arguments, once the verdict is reached the call either
\* raised the rejection error (raise_error set and no "yes" in the answer) or
\* returned a result with passing true or false and a feedback; without
\* raise_error it always returned such a result.
C4_ResultOrRejected ==
  VerdictReached =>
    /\ \/ /\ outcome = EvaluationRejected
          /\ self._raise_error
          /\ ~HasYes(answer.val)
       \/ /\ outcome.kind = "return"
          /\ outcome.value.passing \in {Some(TRUE), Some(FALSE)}
          /\ ~outcome.value.feedback.isNone
    /\ ~self._raise_error => outcome.kind = "return"

C4_Witness ==
  /\ VerdictReached
  /\ ~self._raise_error
  /\ PassingIs(FALSE)
  /\ ~outcome.value.feedback.isNone

\* C5: a call of evaluate_response with a Response object makes one call of
\* evaluate, with the same query, the object's response text and the contents
\* of its source nodes in the same order and number, and ends as that call ends.
C5_EvaluateResponseDelegates ==
  (via = "evaluate_response" /\ ~er_response.isNone) =>
    /\ n_evaluate = 1
    /\ query = er_query
    /\ response = er_response.val.response
    /\ ~contexts.isNone
    /\ Len(contexts.val) = Len(er_response.val.source_nodes)
    /\ \A i \in 1..Len(contexts.val) :
         contexts.val[i] = er_response.val.source_nodes[i].text
    /\ pc = "done" =>
         \/ outcome = InvalidInput /\ (er_query.isNone \/ er_response.val.response.isNone)
         \/ ~raised.isNone /\ outcome = raised.val
         \/ outcome = VerdictOutcome(er_query.val, er_response.val.response.val,
                                     answer.val, self._raise_error)

C5_Witness ==
  /\ via = "evaluate_response"
  /\ ~er_response.isNone
  /\ Len(er_response.val.source_nodes) = 2
  /\ er_response.val.source_nodes[1].text # er_response.val.source_nodes[2].text
  /\ pc = "done"
  /\ outcome.kind = "return"

\* C6: a returned result carries the call's query and response, the raw
\* answer as feedback, and None for contexts and score although contexts
\* were given.
C6_ResultFields ==
  (pc = "done" /\ outcome.kind = "return") =>
    /\ ~contexts.isNone
    /\ outcome.value.query = query
    /\ outcome.value.response = response
    /\ outcome.value.feedback = answer
    /\ outcome.value.contexts = None
    /\ outcome.value.score = None

C6_Witness ==
  /\ pc = "done"
  /\ outcome.kind = "return"
  /\ ~contexts.isNone
  /\ Len(contexts.val) = 2
  /\ outcome.value.contexts = None
  /\ outcome.value.feedback = Some(AnswerYesNo)

\* C7: a call with query and response present and contexts = [] does not end
\* with the invalid-input error: it makes zero documents, and unless a
\* collaborator fails it builds one index without nodes and issues one query.
C7_EmptyContextsAccepted ==
  (pc # "idle" /\ ~query.isNone /\ ~response.isNone /\ contexts = Some(<< >>)) =>
    /\ outcome # InvalidInput
    /\ docs = Some(<< >>)
    /\ pc \in {"query", "verdict"} => n_index = 1 /\ index.val.nodes = << >>
    /\ pc = "verdict" => n_query = 1
    /\ (pc = "done" /\ raised.isNone) =>
         n_index = 1 /\ n_query = 1 /\ index.val.nodes = << >> /\ outcome.kind # "none"

C7_Witness ==
  /\ pc = "done"
  /\ ~query.isNone /\ ~response.isNone /\ contexts = Some(<< >>)
  /\ n_index = 1
  /\ n_query = 1
  /\ index.val.nodes = << >>
  /\ outcome.kind = "return"

\* the query string for the two query texts and the response text of the model
ExpectedQueryResponse ==
  IF query.val = << >>
  THEN <<"Q","u","e","s","t","i","o","n",":"," ",
         "\n","R","e","s","p","o","n","s","e",":"," ","r">>
  ELSE <<"Q","u","e","s","t","i","o","n",":"," ","q",
         "\n","R","e","s","p","o","n","s","e",":"," ","r">>

C8_State ==
  (pc # "idle" /\ ~AnyAbsent) =>
    /\ Len(docs.val) = Len(contexts.val)
    /\ \A i \in 1..Len(docs.val) : docs.val[i].text = contexts.val[i]
    /\ ~index.isNone => index.val.nodes = contexts.val
    /\ ~query_response.isNone => query_response.val = ExpectedQueryResponse
    /\ Len(llm_calls) <= Len(contexts.val)
    /\ \A i \in 1..Len(llm_calls) :
         /\ llm_calls[i].query_str = ExpectedQueryResponse
         /\ llm_calls[i].context = contexts.val[i]
         /\ i = 1 => /\ llm_calls[i].template = self._eval_template
                     /\ llm_calls[i].existing_answer = None
         /\ i > 1 => /\ llm_calls[i].template = self._refine_template
                     /\ ~llm_calls[i].existing_answer.isNone
    /\ VerdictReached =>
         /\ Len(llm_calls) = Len(contexts.val)
         /\ outcome.kind = "return" => outcome.value.feedback = answer

C8_Step ==
  (Len(llm_calls') = Len(llm_calls) + 1 /\ Len(llm_calls) > 0) =>
    /\ SubSeq(llm_calls', 1, Len(llm_calls)) = llm_calls
    /\ llm_calls'[Len(llm_calls')].existing_answer = answer

C9_OwnOutcome ==
  pc = "done" =>
    IF AnyAbsent THEN outcome = InvalidInput
    ELSE IF ~raised.isNone THEN outcome = raised.val
    ELSE IF HasYes(answer.val)
         THEN outcome = Returned(EvaluationResult(query.val, response.val, TRUE, answer.val))
         ELSE IF self._raise_error
              THEN outcome = EvaluationRejected
              ELSE outcome = Returned(EvaluationResult(query.val, response.val, FALSE, answer.val))

C9_State ==
  /\ ~index.isNone =>
       /\ n_index = 1
       /\ index.val.nodes = contexts.val
       /\ index.val.service_context = self._service_context
  /\ C9_OwnOutcome

C9_Step ==
  /\ self' = self
  /\ n_calls' # n_calls =>
       /\ index' = None
       /\ query_response' = None
       /\ query_engine' = None
       /\ n_index' = 0
       /\ n_query' = 0
       /\ llm_calls' = << >>
       /\ answer' = None
       /\ raised' = None

\* C9: no step of a call changes the evaluator's attributes, every call
\* starts from an empty frame and builds its own index from its own contexts,
\* and the outcome of a call is given by its arguments, the attributes and
\* the collaborators' answers in that call, whatever calls came before.
C9_CallsIndependent == [](C9_State) /\ [][C9_Step]_vars

C9_Witness ==
  /\ n_calls = 2
  /\ pc = "done"
  /\ ~index.isNone
  /\ outcome.kind = "return"

\* C10: a call builds at most one index and issues at most one query; an
\* exception raised by the index construction or by the query ends the call
\* as that same exception, with no further attempt and no result; every
\* other exception of a call is the invalid-input or the rejection error.
C10_NoRetryNoSuppression ==
  /\ n_index <= 1
  /\ n_query <= 1
  /\ ~raised.isNone =>
       /\ pc = "done"
       /\ outcome = raised.val
       /\ outcome.kind = "raise"
  /\ (pc = "done" /\ outcome.kind = "raise" /\ raised.isNone) =>
       outcome \in {InvalidInput, EvaluationRejected}

C10_Witness ==
  /\ pc = "done"
  /\ n_index = 1
  /\ n_query = 1
  /\ Len(llm_calls) = 1
  /\ ~raised.isNone
  /\ raised.val \in QueryErrors
  /\ outcome = raised.val

====
